---- MODULE Spec2Model ----
(***************************************************************************)
(* Model of the design aggregate of rubyrokit-design-system: the document  *)
(* store of designs, the DesignService operations (design.service.ts) and  *)
(* the DesignController handlers (design.controller.ts) that wrap them.    *)
(* Every handler is one action: it reads the design, decides, writes the   *)
(* store and produces the HTTP response, recorded in resp.                 *)
(***************************************************************************)
EXTENDS Integers, Sequences, FiniteSets, TLC

VARIABLES store, nextId, clock, resp, accepted, tmpFiles, inflight

vars == <<store, nextId, clock, resp, accepted, tmpFiles, inflight>>

(***************************************************************************)
(* Bounds of the model.                                                    *)
(***************************************************************************)
MaxDesigns == 2
MaxOps == 3

(***************************************************************************)
(* Inputs: users, ids, timestamps.                                         *)
(***************************************************************************)
Users == {"u1", "u2"}
BadId == 0
DesignIds == 1..MaxDesigns
IdInputs == DesignIds \cup {BadId}
Times == 0..MaxOps

Has(r, f) == f \in DOMAIN r
Without(r, S) == [f \in (DOMAIN r) \ S |-> r[f]]
NoFields == [f \in {} |-> 0]
Absent == [absent |-> TRUE]

(***************************************************************************)
(* Values of the Design schema (models/Design.ts).                         *)
(***************************************************************************)
ValidObjectIds == {"mat1"}
IsObjectId(v) == v \in ValidObjectIds

DefaultGlobalSettings ==
  [defaultCuttingMethod |-> "digital", defaultMaterial |-> "cardstock", scale |-> 10]
SuppliedGlobalSettings ==
  [defaultCuttingMethod |-> "manual", defaultMaterial |-> "mat1", scale |-> 20]

DefaultSectionsLeavingGap ==
  << [id |-> "sec1", type |-> "nosecone", name |-> "Nosecone",
      boundaries |-> [start |-> 0, end |-> 2]],
     [id |-> "sec2", type |-> "payload_bay", name |-> "Payload Bay",
      boundaries |-> [start |-> 3, end |-> 5]],
     [id |-> "sec3", type |-> "main_body", name |-> "Main Body",
      boundaries |-> [start |-> 5, end |-> 10]] >>

\* section boundaries are fractions of the body length, kept in tenths
DefaultSections ==
  << [id |-> "sec1", type |-> "nosecone", name |-> "Nosecone",
      boundaries |-> [start |-> 0, end |-> 2]],
     [id |-> "sec2", type |-> "payload_bay", name |-> "Payload Bay",
      boundaries |-> [start |-> 2, end |-> 5]],
     [id |-> "sec3", type |-> "main_body", name |-> "Main Body",
      boundaries |-> [start |-> 5, end |-> 10]] >>
GapSections ==
  << [id |-> "secA", type |-> "nosecone", name |-> "Nose",
      boundaries |-> [start |-> 0, end |-> 3]],
     [id |-> "secB", type |-> "main_body", name |-> "Body",
      boundaries |-> [start |-> 4, end |-> 10]] >>
OneComponent == << [id |-> "c1", type |-> "fin", sectionId |-> "sec3", name |-> "Fin"] >>

DefaultPerformanceMetrics ==
  [weight |-> 0, stability |-> 0, dragCoefficient |-> 0, estimatedHeight |-> 0]
DefaultTemplateSettings ==
  [paperSize |-> "letter", orientation |-> "portrait", units |-> "mm",
   includeInstructions |-> TRUE, includeRegistrationMarks |-> TRUE]
SuppliedMassProperties == [totalMass |-> 5]

InitialChanges == "Initial design creation"
DefaultChangeDescription == "Design update"
MadePublic == "Made design public"
MadePrivate == "Made design private"
ClonedFrom(designId) == "Cloned from design " \o ToString(designId)
CopyOf(name) == "Copy of " \o name

HistoryEntry(v, t, c) == [version |-> v, timestamp |-> t, changes |-> c]

(***************************************************************************)
(* DesignService.createDesign: the document handed to new Design(...).     *)
(* a || b takes b when a is undefined or falsy ("" for the name; arrays    *)
(* and objects are never falsy).                                           *)
(***************************************************************************)
NewDesign(userId, designData, t) ==
  [name |-> IF Has(designData, "name") /\ designData.name # ""
            THEN designData.name ELSE "Untitled Design",
   createdBy |-> userId,
   createdAt |-> t,
   updatedAt |-> t,
   isPublic |-> IF Has(designData, "isPublic") THEN designData.isPublic ELSE FALSE,
   globalSettings |-> IF Has(designData, "globalSettings")
                      THEN designData.globalSettings ELSE DefaultGlobalSettings,
   sections |-> IF Has(designData, "sections")
                THEN designData.sections ELSE DefaultSections,
   components |-> IF Has(designData, "components") THEN designData.components ELSE << >>,
   sectionConnections |-> IF Has(designData, "sectionConnections")
                          THEN designData.sectionConnections ELSE << >>,
   finDesigns |-> IF Has(designData, "finDesigns") THEN designData.finDesigns ELSE << >>,
   performanceMetrics |-> IF Has(designData, "performanceMetrics")
                          THEN designData.performanceMetrics
                          ELSE DefaultPerformanceMetrics,
   templateSettings |-> IF Has(designData, "templateSettings")
                        THEN designData.templateSettings ELSE DefaultTemplateSettings,
   massProperties |-> Absent,
   stabilityAnalysis |-> Absent,
   flightPerformance |-> Absent,
   qrCode |-> Absent,
   thumbnailUrl |-> Absent,
   version |-> 1,
   history |-> << HistoryEntry(1, t, InitialChanges) >>]

\* newDesign.save() validates the document against DesignSchema:
\* globalSettings.defaultMaterial is a required ObjectId
SaveValid(design) == IsObjectId(design.globalSettings.defaultMaterial)


(***************************************************************************)
(* DesignService.getDesignById: the caller may read a design it owns or a  *)
(* public one.                                                             *)
(***************************************************************************)
AccessDeniedToNonOwner(design, userId) == design.createdBy # userId

AccessDenied(design, userId) == design.createdBy # userId /\ ~design.isPublic

NotOwnerUnlessPublic(design, userId) == design.createdBy # userId /\ ~design.isPublic

\* design.createdBy.toString() !== userId: only the owner may mutate
NotOwner(design, userId) == design.createdBy # userId

StripNothing(updateData) == updateData

\* delete updateData.createdBy / createdAt / version / history
StripCritical(updateData) ==
  Without(updateData, {"createdBy", "createdAt", "version", "history"})

SameVersion(design) == design.version
SkipVersion(design) == design.version + 2

\* newVersion = design.version + 1
NextVersion(design) == design.version + 1

UpdateDocReplacing(stored, read, updateData, changeDescription, t) ==
  LET newVersion == read.version + 1
      replaced == [f \in DOMAIN stored |->
                     IF Has(updateData, f) THEN updateData[f]
                     ELSE IF f \in {"createdBy", "createdAt"} THEN stored[f]
                     ELSE NewDesign(stored.createdBy, NoFields, t)[f]]
  IN  [replaced EXCEPT !.updatedAt = t,
                      !.version = newVersion,
                      !.history = Append(stored.history,
                                         HistoryEntry(newVersion, t, changeDescription))]

UpdateDocIncrementing(stored, read, updateData, changeDescription, t) ==
  LET newVersion == stored.version + 1
      merged == [f \in DOMAIN stored |->
                   IF Has(updateData, f) THEN updateData[f] ELSE stored[f]]
  IN  [merged EXCEPT !.updatedAt = t,
                     !.version = newVersion,
                     !.history = Append(stored.history,
                                        HistoryEntry(newVersion, t, changeDescription))]

UpdateDocOverwritingHistory(stored, read, updateData, changeDescription, t) ==
  LET newVersion == read.version + 1
      merged == [f \in DOMAIN stored |->
                   IF Has(updateData, f) THEN updateData[f] ELSE stored[f]]
  IN  [merged EXCEPT !.updatedAt = t,
                     !.version = newVersion,
                     !.history = << HistoryEntry(newVersion, t, changeDescription) >>]

\* Design.findByIdAndUpdate(designId, {...updateData, updatedAt, version,
\* $push: {history: ...}}): applied to the stored document; read is the
\* document DesignService.updateDesign fetched before
UpdateDoc(stored, read, updateData, changeDescription, t) ==
  LET newVersion == NextVersion(read)
      merged == [f \in DOMAIN stored |->
                   IF Has(updateData, f) THEN updateData[f] ELSE stored[f]]
  IN  [merged EXCEPT !.updatedAt = t,
                     !.version = newVersion,
                     !.history = Append(stored.history,
                                        HistoryEntry(newVersion, t, changeDescription))]

\* const { changeDescription, ...updateData } = req.body
BodyUpdateData(body) == Without(body, {"changeDescription"})

AlwaysDefaultDescription(body) == DefaultChangeDescription

\* changeDescription || 'Design update'
BodyChangeDescription(body) ==
  IF Has(body, "changeDescription") /\ body.changeDescription # ""
  THEN body.changeDescription ELSE DefaultChangeDescription

\* updateDesignValidation / createDesignValidation: an optional name must
\* not be empty; the id must be a Mongo id
NameValid(body) == Has(body, "name") => body.name # ""
IsMongoId(id) == id # BadId

ToggleDocSetsPublic(stored, read, t) ==
  [stored EXCEPT !.isPublic = TRUE,
                 !.updatedAt = t,
                 !.history = Append(stored.history,
                                    HistoryEntry(read.version, t, MadePublic))]
ToggleDocBumpsVersion(stored, read, t) ==
  LET newStatus == ~read.isPublic
  IN  [stored EXCEPT !.isPublic = newStatus,
                     !.updatedAt = t,
                     !.version = read.version + 1,
                     !.history = Append(stored.history,
                                        HistoryEntry(read.version + 1, t,
                                          IF newStatus THEN MadePublic ELSE MadePrivate))]

\* Design.findByIdAndUpdate(designId, {isPublic: newStatus, updatedAt,
\* $push: {history: {version: design.version, ...}}})
ToggleDoc(stored, read, t) ==
  LET newStatus == ~read.isPublic
  IN  [stored EXCEPT !.isPublic = newStatus,
                     !.updatedAt = t,
                     !.history = Append(stored.history,
                                        HistoryEntry(read.version, t,
                                          IF newStatus THEN MadePublic ELSE MadePrivate))]

\* DesignService.cloneDesign: the object handed to createDesign
CloneObject(design, designId, userId, body, t) ==
  [f \in (DOMAIN design) |->
     CASE f = "name" -> IF Has(body, "name") /\ body.name # ""
                        THEN body.name ELSE CopyOf(design.name)
       [] f = "createdBy" -> userId
       [] f = "createdAt" -> t
       [] f = "updatedAt" -> t
       [] f = "isPublic" -> FALSE
       [] f = "version" -> 1
       [] f = "history" -> << HistoryEntry(1, t, ClonedFrom(designId)) >>
       [] OTHER -> design[f]]

(***************************************************************************)
(* Requests.                                                               *)
(***************************************************************************)
CreateBodies ==
  { NoFields,
    [globalSettings |-> SuppliedGlobalSettings],
    [globalSettings |-> SuppliedGlobalSettings, name |-> "Rocket A",
     isPublic |-> TRUE, components |-> OneComponent],
    [name |-> ""] }

UpdateBodies ==
  { [massProperties |-> SuppliedMassProperties],
    [changeDescription |-> "", name |-> "Rocket B", isPublic |-> TRUE],
    [changeDescription |-> "Resized fins", sections |-> GapSections,
     createdBy |-> "u2", createdAt |-> 99, version |-> 7, history |-> << >>],
    [name |-> ""] }

CloneBodies == { NoFields, [name |-> "Rocket C"] }

\* a stabilityAnalysis value with one flight phase; margins are in thousandths
\* of a caliber
StabilityAnalysis(margin, status) ==
  [flightPhases |-> << [phase |-> "launch", stabilityMargin |-> margin,
                        stabilityStatus |-> status] >>,
   recommendations |-> << >>]

AnalysisBodies ==
  { [stabilityAnalysis |-> StabilityAnalysis(1000, "stable")],
    [stabilityAnalysis |-> StabilityAnalysis(999, "marginal")],
    [stabilityAnalysis |-> StabilityAnalysis(0 - 1, "unstable")],
    [stabilityAnalysis |-> StabilityAnalysis(1000, "unstable")] }

\* the request a handler served and its answer: op, id, user and body are the
\* request, status the HTTP status, newId the identity of a design the
\* request persisted, before the addressed design as stored when the request
\* arrived
Response(op, id, status, newId, user, body) ==
  [op |-> op, id |-> id, user |-> user, body |-> body, status |-> status,
   newId |-> newId,
   before |-> IF id \in DOMAIN store THEN store[id] ELSE Absent]

NoAccepted == [updates |-> 0, toggles |-> 0]

\* requests being served at once, and a request that is not in flight
Procs == {"p1", "p2"}
Idle == [op |-> "idle"]

Init ==
  /\ store = << >>
  /\ nextId = 1
  /\ clock = 0
  /\ accepted = << >>
  /\ tmpFiles = << >>
  /\ inflight = [p \in Procs |-> Idle]
  /\ resp = Response("none", BadId, 0, BadId, "u1", NoFields)

\* new Date(): the reading of a logical clock, which advances with every
\* committed mutation
Now(t) == t = clock /\ clock < MaxOps
Tick == clock' = clock + 1

\* insert a new document under a fresh identity
Insert(design) ==
  /\ store' = store @@ (nextId :> design)
  /\ accepted' = accepted @@ (nextId :> NoAccepted)
  /\ nextId' = nextId + 1

(***************************************************************************)
(* DesignController.createDesign                                           *)
(***************************************************************************)
CreateDesign(user, body, t) ==
  /\ UNCHANGED <<tmpFiles, inflight>>
  /\ nextId <= MaxDesigns
  /\ Now(t)
  /\ IF ~NameValid(body)
     THEN /\ resp' = Response("create", BadId, 400, BadId, user, body)
          /\ UNCHANGED <<store, nextId, accepted, clock>>
     ELSE LET design == NewDesign(user, body, t)
          IN  IF SaveValid(design)
              THEN /\ Insert(design)
                   /\ Tick
                   /\ resp' = Response("create", BadId, 201, nextId, user, body)
              ELSE /\ resp' = Response("create", BadId, 500, BadId, user, body)
                   /\ UNCHANGED <<store, nextId, accepted, clock>>


(***************************************************************************)
(* DesignController.updateDesign with DesignService.updateDesign           *)
(***************************************************************************)
UpdateDesign(id, user, body, t) ==
  /\ UNCHANGED <<tmpFiles, inflight>>
  /\ Now(t)
  /\ IF ~IsMongoId(id) \/ ~NameValid(body)
     THEN /\ resp' = Response("update", id, 400, BadId, user, body)
          /\ UNCHANGED <<store, nextId, accepted, clock>>
     ELSE IF id \notin DOMAIN store
     THEN /\ resp' = Response("update", id, 404, BadId, user, body)
          /\ UNCHANGED <<store, nextId, accepted, clock>>
     ELSE IF AccessDenied(store[id], user) \/ NotOwner(store[id], user)
     THEN /\ resp' = Response("update", id, 403, BadId, user, body)
          /\ UNCHANGED <<store, nextId, accepted, clock>>
     ELSE /\ store' = [store EXCEPT ![id] =
                         UpdateDoc(store[id], store[id],
                                   StripCritical(BodyUpdateData(body)),
                                   BodyChangeDescription(body), t)]
          /\ accepted' = [accepted EXCEPT ![id].updates = @ + 1]
          /\ resp' = Response("update", id, 200, BadId, user, body)
          /\ Tick
          /\ UNCHANGED nextId

(***************************************************************************)
(* DesignController.deleteDesign with DesignService.deleteDesign           *)
(***************************************************************************)
DeleteDesign(id, user) ==
  /\ UNCHANGED <<tmpFiles, inflight>>
  /\ clock < MaxOps
  /\ IF ~IsMongoId(id)
     THEN /\ resp' = Response("delete", id, 400, BadId, user, NoFields)
          /\ UNCHANGED <<store, clock>>
     ELSE IF id \notin DOMAIN store
     THEN /\ resp' = Response("delete", id, 404, BadId, user, NoFields)
          /\ UNCHANGED <<store, clock>>
     ELSE IF AccessDenied(store[id], user) \/ NotOwner(store[id], user)
     THEN /\ resp' = Response("delete", id, 403, BadId, user, NoFields)
          /\ UNCHANGED <<store, clock>>
     ELSE /\ store' = [d \in (DOMAIN store) \ {id} |-> store[d]]
          /\ Tick
          /\ resp' = Response("delete", id, 200, BadId, user, NoFields)
  /\ UNCHANGED <<nextId, accepted>>

(***************************************************************************)
(* DesignController.cloneDesign with DesignService.cloneDesign, which      *)
(* persists through DesignService.createDesign; the controller answers     *)
(* every thrown error with 500                                             *)
(***************************************************************************)
CloneDesign(id, user, body, t) ==
  /\ UNCHANGED <<tmpFiles, inflight>>
  /\ nextId <= MaxDesigns
  /\ Now(t)
  /\ IF ~IsMongoId(id)
     THEN /\ resp' = Response("clone", id, 400, BadId, user, body)
          /\ UNCHANGED <<store, nextId, accepted, clock>>
     ELSE IF id \notin DOMAIN store
     THEN /\ resp' = Response("clone", id, 404, BadId, user, body)
          /\ UNCHANGED <<store, nextId, accepted, clock>>
     ELSE IF AccessDenied(store[id], user)
     THEN /\ resp' = Response("clone", id, 500, BadId, user, body)
          /\ UNCHANGED <<store, nextId, accepted, clock>>
     ELSE LET design == NewDesign(user, CloneObject(store[id], id, user, body, t), t)
          IN  IF SaveValid(design)
              THEN /\ Insert(design)
                   /\ Tick
                   /\ resp' = Response("clone", id, 201, nextId, user, body)
              ELSE /\ resp' = Response("clone", id, 500, BadId, user, body)
                   /\ UNCHANGED <<store, nextId, accepted, clock>>

(***************************************************************************)
(* DesignController.togglePublicStatus with                                *)
(* DesignService.togglePublicStatus                                        *)
(***************************************************************************)
TogglePublicStatus(id, user, t) ==
  /\ UNCHANGED <<tmpFiles, inflight>>
  /\ Now(t)
  /\ IF ~IsMongoId(id)
     THEN /\ resp' = Response("toggle", id, 400, BadId, user, NoFields)
          /\ UNCHANGED <<store, nextId, accepted, clock>>
     ELSE IF id \notin DOMAIN store
     THEN /\ resp' = Response("toggle", id, 404, BadId, user, NoFields)
          /\ UNCHANGED <<store, nextId, accepted, clock>>
     ELSE IF AccessDenied(store[id], user) \/ NotOwner(store[id], user)
     THEN /\ resp' = Response("toggle", id, 403, BadId, user, NoFields)
          /\ UNCHANGED <<store, nextId, accepted, clock>>
     ELSE /\ store' = [store EXCEPT ![id] = ToggleDoc(store[id], store[id], t)]
          /\ accepted' = [accepted EXCEPT ![id].toggles = @ + 1]
          /\ resp' = Response("toggle", id, 200, BadId, user, NoFields)
          /\ Tick
          /\ UNCHANGED nextId

(***************************************************************************)
(* DesignController.getDesignById with DesignService.getDesignById         *)
(***************************************************************************)
GetDesignById(id, user) ==
  /\ UNCHANGED <<tmpFiles, inflight>>
  /\ resp' = Response("get", id,
                      IF ~IsMongoId(id) THEN 400
                      ELSE IF id \notin DOMAIN store THEN 404
                      ELSE IF AccessDenied(store[id], user) THEN 403
                      ELSE 200,
                      BadId, user, NoFields)
  /\ UNCHANGED <<store, nextId, clock, accepted>>

Next ==
  \/ \E user \in Users, body \in CreateBodies, t \in Times : CreateDesign(user, body, t)
  \/ \E id \in IdInputs, user \in Users, body \in UpdateBodies, t \in Times :
       UpdateDesign(id, user, body, t)
  \/ \E id \in IdInputs, user \in Users : DeleteDesign(id, user)
  \/ \E id \in IdInputs, user \in Users, body \in CloneBodies, t \in Times :
       CloneDesign(id, user, body, t)
  \/ \E id \in IdInputs, user \in Users, t \in Times : TogglePublicStatus(id, user, t)
  \/ \E id \in IdInputs, user \in Users : GetDesignById(id, user)

Spec == Init /\ [][Next]_vars

(***************************************************************************)
(* Overlapping requests.  updateDesign, togglePublicStatus and             *)
(* deleteDesign each await getDesignById and later await their write;      *)
(* other requests run between the two.  A request that is answered by its  *)
(* read (400, 404, 403) never gets in flight.                              *)
(***************************************************************************)
ConcurrentBodies == {body \in UpdateBodies : Has(body, "changeDescription")}

\* the overlapping requests are one user's, on well-formed ids
ConcurrentUsers == {"u1"}
ConcurrentCreateBodies == {body \in CreateBodies : DOMAIN body = {"globalSettings"}}

InFlight(op, id, user, body) ==
  [op |-> op, id |-> id, user |-> user, body |-> body, read |-> store[id]]

\* the answer of a request's read: 0 when the request goes on to its write
ReadStatus(id, user, body) ==
  IF ~IsMongoId(id) \/ ~NameValid(body) THEN 400
  ELSE IF id \notin DOMAIN store THEN 404
  ELSE IF AccessDenied(store[id], user) \/ NotOwner(store[id], user) THEN 403
  ELSE 0

\* requests are taken by the first process that is free
FirstFree(p) == inflight[p] = Idle /\ \A q \in Procs : inflight[q] = Idle => p = q \/ p = "p1"

Begin(p, op, id, user, body) ==
  /\ FirstFree(p)
  /\ IF ReadStatus(id, user, body) # 0
     THEN /\ resp' = Response(op, id, ReadStatus(id, user, body), BadId, user, body)
          /\ UNCHANGED inflight
     ELSE /\ inflight' = [inflight EXCEPT ![p] = InFlight(op, id, user, body)]
          /\ UNCHANGED resp
  /\ UNCHANGED <<store, nextId, clock, accepted, tmpFiles>>

BeginUpdate(p, id, user, body) ==
  /\ Begin(p, "update", id, user, body)

BeginToggle(p, id, user) ==
  /\ Begin(p, "toggle", id, user, NoFields)

BeginDelete(p, id, user) ==
  /\ Begin(p, "delete", id, user, NoFields)

WrittenAlwaysOk(req, status) ==
  Response(req.op, req.id, 200, BadId, req.user, req.body) @@ [read |-> req.read]

\* the answer of a request's write, with the document its read had fetched
Written(req, status) ==
  Response(req.op, req.id, status, BadId, req.user, req.body) @@ [read |-> req.read]

\* findByIdAndUpdate gives null for a document that is gone: 404
FinishUpdate(p, t) ==
  LET req == inflight[p]
  IN  /\ req.op = "update"
      /\ Now(t)
      /\ inflight' = [inflight EXCEPT ![p] = Idle]
      /\ IF req.id \in DOMAIN store
         THEN /\ store' = [store EXCEPT ![req.id] =
                             UpdateDoc(store[req.id], req.read,
                                       StripCritical(BodyUpdateData(req.body)),
                                       BodyChangeDescription(req.body), t)]
              /\ accepted' = [accepted EXCEPT ![req.id].updates = @ + 1]
              /\ resp' = Written(req, 200)
              /\ Tick
         ELSE /\ resp' = Written(req, 404)
              /\ UNCHANGED <<store, accepted, clock>>
      /\ UNCHANGED <<nextId, tmpFiles>>

FinishToggle(p, t) ==
  LET req == inflight[p]
  IN  /\ req.op = "toggle"
      /\ Now(t)
      /\ inflight' = [inflight EXCEPT ![p] = Idle]
      /\ IF req.id \in DOMAIN store
         THEN /\ store' = [store EXCEPT ![req.id] =
                             ToggleDoc(store[req.id], req.read, t)]
              /\ accepted' = [accepted EXCEPT ![req.id].toggles = @ + 1]
              /\ resp' = Written(req, 200)
              /\ Tick
         ELSE /\ resp' = Written(req, 404)
              /\ UNCHANGED <<store, accepted, clock>>
      /\ UNCHANGED <<nextId, tmpFiles>>

\* findByIdAndDelete, whose result deleteDesign does not look at
FinishDelete(p) ==
  LET req == inflight[p]
  IN  /\ req.op = "delete"
      /\ clock < MaxOps
      /\ inflight' = [inflight EXCEPT ![p] = Idle]
      /\ store' = [d \in (DOMAIN store) \ {req.id} |-> store[d]]
      /\ clock' = IF req.id \in DOMAIN store THEN clock + 1 ELSE clock
      /\ resp' = Written(req, 200)
      /\ UNCHANGED <<nextId, accepted, tmpFiles>>

ConcurrentNext ==
  \/ \E user \in ConcurrentUsers, body \in ConcurrentCreateBodies, t \in Times :
       CreateDesign(user, body, t)
  \/ \E p \in Procs, id \in DesignIds, user \in ConcurrentUsers, body \in ConcurrentBodies :
       BeginUpdate(p, id, user, body)
  \/ \E p \in Procs, t \in Times : FinishUpdate(p, t)
  \/ \E p \in Procs, id \in DesignIds, user \in ConcurrentUsers : BeginToggle(p, id, user)
  \/ \E p \in Procs, t \in Times : FinishToggle(p, t)
  \/ \E p \in Procs, id \in DesignIds, user \in ConcurrentUsers : BeginDelete(p, id, user)
  \/ \E p \in Procs : FinishDelete(p)
  \/ \E id \in DesignIds, user \in ConcurrentUsers, t \in Times :
       CloneDesign(id, user, NoFields, t)
  \/ \E id \in DesignIds, user \in ConcurrentUsers : GetDesignById(id, user)

SpecConcurrent == Init /\ [][ConcurrentNext]_vars

(***************************************************************************)
(* Listing: DesignController.getUserDesigns and getPublicDesigns over the  *)
(* service functions of the same names.  Query values arrive as text.      *)
(***************************************************************************)
IntegerTexts == {"0", "1", "2", "100", "101"}
\* texts with a leading integer; parseInt of any other text is NaN
Parseable == IntegerTexts \cup {"1.5"}

\* parseInt: the leading integer of the text
ParseInt(str) ==
  CASE str = "0" -> 0
    [] str = "1" -> 1
    [] str = "2" -> 2
    [] str = "100" -> 100
    [] str = "101" -> 101
    [] str = "1.5" -> 1

\* isInt({min}) of express-validator: an integer numeral not below min
IsIntFrom(str, min) == str \in IntegerTexts /\ ParseInt(str) >= min

\* isInt({min, max})
IsIntWithin(str, min, max) == IsIntFrom(str, min) /\ ParseInt(str) <= max

MaxLimit == 100

ListQueries ==
  { NoFields,
    [page |-> "0"],
    [page |-> "2", limit |-> "1"],
    [page |-> "1.5"],
    [limit |-> "0"],
    [limit |-> "101", sortOrder |-> "desc"],
    [limit |-> "100", sortOrder |-> "asc"],
    [limit |-> "abc"],
    [sortOrder |-> "up"] }

PaginationUnchecked(query) == TRUE

PaginationValid(query) ==
  /\ Has(query, "page") => IsIntFrom(query.page, 1)
  /\ Has(query, "limit") => IsIntWithin(query.limit, 1, MaxLimit)
  /\ Has(query, "sortOrder") => query.sortOrder \in {"asc", "desc"}

\* parseInt(req.query.f) || fallback
ParseIntOr(query, f, fallback) ==
  IF Has(query, f) /\ query[f] \in Parseable /\ ParseInt(query[f]) # 0
  THEN ParseInt(query[f])
  ELSE fallback

\* req.query.sortOrder || 'desc'
SortOrderOr(query) ==
  IF Has(query, "sortOrder") /\ query.sortOrder # "" THEN query.sortOrder ELSE "desc"

\* ids of the given set ordered by updatedAt; 'desc' gives -1, anything else 1
RECURSIVE SortByUpdatedAt(_, _)
SortByUpdatedAt(ids, sortOrder) ==
  IF ids = {} THEN << >>
  ELSE LET first == CHOOSE i \in ids : \A j \in ids :
                      IF sortOrder = "desc"
                      THEN <<store[i].updatedAt, i>> = <<store[j].updatedAt, j>>
                           \/ store[i].updatedAt > store[j].updatedAt
                           \/ (store[i].updatedAt = store[j].updatedAt /\ i > j)
                      ELSE <<store[i].updatedAt, i>> = <<store[j].updatedAt, j>>
                           \/ store[i].updatedAt < store[j].updatedAt
                           \/ (store[i].updatedAt = store[j].updatedAt /\ i < j)
       IN  <<first>> \o SortByUpdatedAt(ids \ {first}, sortOrder)

\* .skip(skip).limit(limit) on an ordered result
SkipLimit(seq, skip, limit) ==
  SubSeq(seq, skip + 1, IF skip + limit < Len(seq) THEN skip + limit ELSE Len(seq))

\* Math.ceil(total / limit) for limit >= 1
Ceil(total, limit) == (total + limit - 1) \div limit

\* find(filter).sort().skip().limit() with countDocuments(filter)
FindPage(ids, page, limit, sortOrder) ==
  [queried |-> TRUE,
   designs |-> SkipLimit(SortByUpdatedAt(ids, sortOrder), (page - 1) * limit, limit),
   total |-> Cardinality(ids),
   page |-> page,
   limit |-> limit,
   pages |-> Ceil(Cardinality(ids), limit)]

NotQueried ==
  [queried |-> FALSE, designs |-> << >>, total |-> 0, page |-> 0, limit |-> 0,
   pages |-> 0]

ListResponse(op, status, user, query, out) ==
  Response(op, BadId, status, BadId, user, query) @@ out

OwnedBy(userId) == {id \in DOMAIN store : store[id].createdBy = userId}

PublicUnfiltered == DOMAIN store

Public == {id \in DOMAIN store : store[id].isPublic}

GetUserDesigns(user, query) ==
  /\ resp' =
       IF ~PaginationValid(query)
       THEN ListResponse("listOwn", 400, user, query, NotQueried)
       ELSE ListResponse("listOwn", 200, user, query,
                         FindPage(OwnedBy(user), ParseIntOr(query, "page", 1),
                                  ParseIntOr(query, "limit", 10), SortOrderOr(query)))
  /\ UNCHANGED <<store, nextId, clock, accepted, tmpFiles, inflight>>

GetPublicDesigns(user, query) ==
  /\ resp' =
       IF ~PaginationValid(query)
       THEN ListResponse("listPublic", 400, user, query, NotQueried)
       ELSE ListResponse("listPublic", 200, user, query,
                         FindPage(Public, ParseIntOr(query, "page", 1),
                                  ParseIntOr(query, "limit", 10), SortOrderOr(query)))
  /\ UNCHANGED <<store, nextId, clock, accepted, tmpFiles, inflight>>

(***************************************************************************)
(* Template export: FileController over FileService.                      *)
(***************************************************************************)
SupportedFormats == {"svg", "pdf", "silhouette", "cricut"}
FormatInputs == SupportedFormats \cup {"dxf", "PDF"}
Queries == {NoFields} \cup {[format |-> f] : f \in FormatInputs}

\* String.prototype.toLowerCase on the format values in use
ToLowerCase(str) == IF str = "PDF" THEN "pdf" ELSE str

\* query('format').optional().isIn([...]), which compares the value as sent
AnyFormatValid(query) == TRUE

FormatValid(query) == ~Has(query, "format") \/ query.format \in SupportedFormats

\* (req.query.format || 'svg').toLowerCase()
QueryFormat(query) ==
  IF Has(query, "format") /\ query.format # ""
  THEN ToLowerCase(query.format)
  ELSE "svg"

\* the document is a fixed drawing under the design's name
GenerateSvgTemplate(design) ==
  "<svg><title>" \o design.name \o " - Template</title><g id=rocket/></svg>"

SilhouetteHeader == "SILHOUETTE-STUDIO-FILE\n"
CricutHeader == "CRICUT-DESIGN-SPACE-FILE\n"
PdfHeader == "%PDF-1.7\n1 0 obj\n<< /Type /Catalog /Pages 2 0 R >>\nendobj\n"
PdfFooter == "\nendobj\n%%EOF"

\* Buffer.concat of the parts, kept as the sequence of the parts
GenerateSilhouetteStudioFile(svgContent) == <<SilhouetteHeader, svgContent>>

GenerateCricutFileUnderSilhouetteHeader(svgContent) == <<SilhouetteHeader, svgContent>>

GenerateCricutFile(svgContent) == <<CricutHeader, svgContent>>
GeneratePdfTemplate(svgContent) == <<PdfHeader, svgContent, PdfFooter>>

\* what an export request produced besides its status
NoOutput ==
  [vectorized |-> FALSE, encoder |-> "none", contentType |-> "application/json",
   bytes |-> << >>, templateUrl |-> Absent, uploaded |-> FALSE, env |-> "none"]

ExportResponse(op, id, status, user, query, out) ==
  Response(op, id, status, BadId, user, query) @@ out

\* the switch of generateTemplate, entered with the document already drawn
Encode(format, svgContent) ==
  LET drawn == [NoOutput EXCEPT !.vectorized = TRUE]
  IN  CASE format = "svg" ->
             [status |-> 200,
              out |-> [drawn EXCEPT !.contentType = "image/svg+xml",
                                    !.bytes = <<svgContent>>]]
        [] format = "pdf" ->
             [status |-> 200,
              out |-> [drawn EXCEPT !.contentType = "application/pdf",
                                    !.encoder = "pdf",
                                    !.bytes = GeneratePdfTemplate(svgContent)]]
        [] format = "silhouette" ->
             [status |-> 200,
              out |-> [drawn EXCEPT !.contentType = "application/octet-stream",
                                    !.encoder = "silhouette",
                                    !.bytes = GenerateSilhouetteStudioFile(svgContent)]]
        [] format = "cricut" ->
             [status |-> 200,
              out |-> [drawn EXCEPT !.contentType = "application/octet-stream",
                                    !.encoder = "cricut",
                                    !.bytes = GenerateCricutFile(svgContent)]]
        [] OTHER -> [status |-> 400, out |-> drawn]

(***************************************************************************)
(* FileController.generateTemplate: every thrown error, access denied      *)
(* included, is answered 500                                               *)
(***************************************************************************)
GenerateTemplate(id, user, query) ==
  /\ resp' =
       IF ~IsMongoId(id) \/ ~FormatValid(query)
       THEN ExportResponse("template", id, 400, user, query, NoOutput)
       ELSE IF id \notin DOMAIN store
       THEN ExportResponse("template", id, 404, user, query, NoOutput)
       ELSE IF AccessDenied(store[id], user)
       THEN ExportResponse("template", id, 500, user, query, NoOutput)
       ELSE LET sent == Encode(QueryFormat(query), GenerateSvgTemplate(store[id]))
            IN  ExportResponse("template", id, sent.status, user, query, sent.out)
  /\ UNCHANGED <<store, nextId, clock, accepted, tmpFiles, inflight>>

(***************************************************************************)
(* The persist variant.  What the request finds outside the process: the   *)
(* temporary directory not writable, no S3 credentials or bucket in the    *)
(* configuration, S3 configured with the upload failing, or succeeding.    *)
(***************************************************************************)
Environments == {"diskFull", "noS3", "s3Down", "s3Up"}
WriteSucceeds(env) == env # "diskFull"
S3Configured(env) == env \in {"s3Down", "s3Up"}
UploadSucceeds(env) == env = "s3Up"

SaveQueries == {NoFields, [format |-> "dxf"]}

\* a temporary file is named by its position in tmpFiles, which stands for
\* the uuid in its path
LocalPath(n) == [tmp |-> n]
S3Location(key) == [s3 |-> key]

\* fs.promises.writeFile to a fresh path
WriteFile(files, filename, content) ==
  Append(files, [name |-> filename, content |-> content, exists |-> TRUE])

\* fs.promises.unlink, which fails with ENOENT on a path that is gone
Unlink(files, n) ==
  [threw |-> ~files[n].exists,
   files |-> [files EXCEPT ![n].exists = FALSE]]

UploadFileToS3(files, n, key, env) ==
  IF ~S3Configured(env)
  THEN [threw |-> FALSE, url |-> Absent, files |-> files, uploaded |-> FALSE]
  ELSE IF ~UploadSucceeds(env)
  THEN [threw |-> TRUE, url |-> Absent, files |-> files, uploaded |-> FALSE]
  ELSE LET cleaned == Unlink(files, n)
       IN  [threw |-> cleaned.threw, url |-> S3Location(key),
            files |-> cleaned.files, uploaded |-> TRUE]

GenerateAndSaveTemplate(files, designId, design, env) ==
  LET svgContent == GenerateSvgTemplate(design)
      written == WriteFile(files, designId, svgContent)
      tempFilePath == Len(written)
      s3Key == [design |-> designId, object |-> tempFilePath]
  IN  IF ~WriteSucceeds(env)
      THEN [threw |-> TRUE, url |-> Absent, files |-> files, uploaded |-> FALSE]
      ELSE IF S3Configured(env)
      THEN LET sent == UploadFileToS3(written, tempFilePath, s3Key, env)
               cleaned == Unlink(sent.files, tempFilePath)
           IN  IF sent.threw
               THEN [threw |-> TRUE, url |-> Absent, files |-> sent.files,
                     uploaded |-> sent.uploaded]
               ELSE IF cleaned.threw
               THEN [threw |-> TRUE, url |-> Absent, files |-> cleaned.files,
                     uploaded |-> sent.uploaded]
               ELSE [threw |-> FALSE,
                     url |-> IF sent.url # Absent THEN sent.url
                             ELSE LocalPath(tempFilePath),
                     files |-> cleaned.files, uploaded |-> sent.uploaded]
      ELSE [threw |-> FALSE, url |-> LocalPath(tempFilePath), files |-> written,
            uploaded |-> FALSE]

(***************************************************************************)
(* FileController.saveTemplate with FileService.generateAndSaveTemplate    *)
(***************************************************************************)
SaveTemplate(id, user, query, env) ==
  /\ clock < MaxOps
  /\ IF ~IsMongoId(id) \/ ~FormatValid(query)
     THEN /\ resp' = ExportResponse("save", id, 400, user, query, NoOutput)
          /\ UNCHANGED <<tmpFiles, clock>>
     ELSE IF id \notin DOMAIN store
     THEN /\ resp' = ExportResponse("save", id, 404, user, query, NoOutput)
          /\ UNCHANGED <<tmpFiles, clock>>
     ELSE IF AccessDenied(store[id], user)
     THEN /\ resp' = ExportResponse("save", id, 500, user, query, NoOutput)
          /\ UNCHANGED <<tmpFiles, clock>>
     ELSE LET saved == GenerateAndSaveTemplate(tmpFiles, id, store[id], env)
          IN  /\ tmpFiles' = saved.files
              /\ clock' = IF saved.files = tmpFiles THEN clock ELSE clock + 1
              /\ resp' = ExportResponse("save", id,
                           IF saved.threw THEN 500 ELSE 200, user, query,
                           [NoOutput EXCEPT !.vectorized = TRUE,
                                            !.templateUrl = saved.url,
                                            !.uploaded = saved.uploaded,
                                            !.env = env])
  /\ UNCHANGED <<store, nextId, accepted, inflight>>

AnalysisNext ==
  \/ \E user \in Users, body \in CreateBodies, t \in Times : CreateDesign(user, body, t)
  \/ \E id \in IdInputs, user \in Users, body \in AnalysisBodies, t \in Times :
       UpdateDesign(id, user, body, t)
  \/ \E id \in IdInputs, user \in Users : GetDesignById(id, user)

SpecAnalysis == Init /\ [][AnalysisNext]_vars

ListNext ==
  \/ \E user \in Users, body \in CreateBodies, t \in Times : CreateDesign(user, body, t)
  \/ \E id \in IdInputs, user \in Users, t \in Times : TogglePublicStatus(id, user, t)
  \/ \E user \in Users, query \in ListQueries : GetUserDesigns(user, query)
  \/ \E user \in Users, query \in ListQueries : GetPublicDesigns(user, query)

SpecList == Init /\ [][ListNext]_vars

(***************************************************************************)
(* FileController.downloadTemplate.  The host has files of its own besides *)
(* the temporary files of the export.                                      *)
(***************************************************************************)
HostFiles == [path \in {"/etc/passwd"} |-> "root:x:0:0"]
HostPath(path) == [host |-> path]

\* paths a caller may name: any temporary file there can be, a file of the
\* host, and a path where nothing is
FilePaths ==
  {LocalPath(n) : n \in 1..MaxOps} \cup {HostPath("/etc/passwd"), HostPath("/tmp/none.svg")}

\* fs.existsSync(filepath)
ExistsSync(filepath) ==
  IF Has(filepath, "tmp")
  THEN filepath.tmp \in DOMAIN tmpFiles /\ tmpFiles[filepath.tmp].exists
  ELSE filepath.host \in DOMAIN HostFiles

\* fs.createReadStream(filepath) piped to the response
ReadStream(filepath) ==
  IF Has(filepath, "tmp") THEN tmpFiles[filepath.tmp].content
  ELSE HostFiles[filepath.host]

DownloadTemplate(user, filepath) ==
  /\ resp' =
       IF ~ExistsSync(filepath)
       THEN ExportResponse("download", BadId, 404, user, [filepath |-> filepath],
                           NoOutput)
       ELSE ExportResponse("download", BadId, 200, user, [filepath |-> filepath],
                           [NoOutput EXCEPT !.contentType = "image/svg+xml",
                                            !.bytes = <<ReadStream(filepath)>>])
  /\ UNCHANGED <<store, nextId, clock, accepted, tmpFiles, inflight>>

ExportNext ==
  \/ \E user \in Users, body \in CreateBodies, t \in Times : CreateDesign(user, body, t)
  \/ \E id \in IdInputs, user \in Users, query \in Queries :
       GenerateTemplate(id, user, query)
  \/ \E id \in IdInputs, user \in Users, query \in SaveQueries, env \in Environments :
       SaveTemplate(id, user, query, env)
  \/ \E user \in Users, filepath \in FilePaths : DownloadTemplate(user, filepath)

SpecExport == Init /\ [][ExportNext]_vars

DisclosureQueries == {query \in Queries : query = NoFields \/ query = [format |-> "cricut"]}
DisclosureEnvironments == {"noS3"}
DisclosureListQueries == {query \in ListQueries : query = NoFields \/ Has(query, "page")}

\* every operation that hands a design, or something made from it, to a caller
DisclosureNext ==
  \/ \E user \in Users, body \in CreateBodies, t \in Times : CreateDesign(user, body, t)
  \/ \E id \in DesignIds, user \in Users, t \in Times : TogglePublicStatus(id, user, t)
  \/ \E id \in DesignIds, user \in Users : GetDesignById(id, user)
  \/ \E id \in DesignIds, user \in Users, t \in Times :
       CloneDesign(id, user, NoFields, t)
  \/ \E id \in DesignIds, user \in Users, query \in DisclosureQueries :
       GenerateTemplate(id, user, query)
  \/ \E id \in DesignIds, user \in Users, env \in DisclosureEnvironments :
       SaveTemplate(id, user, NoFields, env)
  \/ \E user \in Users, query \in DisclosureListQueries : GetPublicDesigns(user, query)

SpecDisclosure == Init /\ [][DisclosureNext]_vars


(***************************************************************************)
(* Properties of the versioning engine.  A request is accepted when its    *)
(* handler answers 200 (201 for a creation).                               *)
(***************************************************************************)
Last(seq) == seq[Len(seq)]
IsPrefix(p, q) == Len(p) <= Len(q) /\ SubSeq(q, 1, Len(p)) = p
ToggleChanges == {MadePublic, MadePrivate}
Accepted(op) == resp.op = op /\ resp.status \in {200, 201}

\* C1: a design that has seen n accepted updateDesign calls and no other
\* mutation has version 1 + n and n + 1 history entries.
C1_VersionCountsUpdates ==
  \A id \in DOMAIN store :
    accepted[id].toggles = 0 =>
      /\ store[id].version = 1 + accepted[id].updates
      /\ Len(store[id].history) = accepted[id].updates + 1

C1_Witness ==
  \E id \in DOMAIN store : accepted[id].updates = 2 /\ accepted[id].toggles = 0

\* what an accepted updateDesign does to version and history, for a given
\* expected description of the appended entry
UpdateAppends(old, new, description) ==
  /\ new.version = old.version + 1
  /\ Len(new.history) = Len(old.history) + 1
  /\ IsPrefix(old.history, new.history)
  /\ Last(new.history).version = new.version
  /\ Last(new.history).changes = description

\* C2 (as stated): an accepted updateDesign increments version by exactly 1
\* and appends exactly one history entry carrying the new version and the
\* caller's changeDescription, or 'Design update' when the caller supplies
\* none.
C2_DescriptionAsSupplied ==
  Accepted("update") =>
    UpdateAppends(resp.before, store[resp.id],
                  IF Has(resp.body, "changeDescription")
                  THEN resp.body.changeDescription ELSE "Design update")

\* C2 (amended): as above, and the generic 'Design update' text is also used
\* when the caller supplies an empty changeDescription.
C2_DescriptionOrDefault ==
  Accepted("update") =>
    UpdateAppends(resp.before, store[resp.id],
                  IF Has(resp.body, "changeDescription")
                     /\ resp.body.changeDescription # ""
                  THEN resp.body.changeDescription ELSE "Design update")

C2_Witness ==
  /\ Accepted("update")
  /\ Has(resp.body, "changeDescription")
  /\ resp.body.changeDescription = ""
  /\ Last(store[resp.id].history).changes = "Design update"

\* C3: a well-formed updateDesign request on an existing design by a user
\* who is not its owner is answered 403 (access denied), whether the design
\* is public or private, and the stored design stays as it was.
C3_NonOwnerUpdateDenied ==
  (/\ resp.op = "update"
   /\ IsMongoId(resp.id)
   /\ NameValid(resp.body)
   /\ resp.before # Absent
   /\ resp.before.createdBy # resp.user)
  => /\ resp.status = 403
     /\ resp.id \in DOMAIN store
     /\ store[resp.id] = resp.before

C3_Witness ==
  /\ resp.op = "update"
  /\ resp.status = 403
  /\ resp.before # Absent
  /\ resp.before.isPublic
  /\ resp.before.createdBy # resp.user
  /\ store[resp.id] = resp.before

\* C4: owner (createdBy), createdAt, version and history values in the patch
\* of an accepted updateDesign are ignored: owner and createdAt stay, version
\* is the old version + 1 and history is the old history plus one entry
\* written by the engine.
C4_CriticalFieldsIgnored ==
  Accepted("update") =>
    LET old == resp.before
        new == store[resp.id]
    IN  /\ new.createdBy = old.createdBy
        /\ new.createdAt = old.createdAt
        /\ new.version = old.version + 1
        /\ Len(new.history) = Len(old.history) + 1
        /\ IsPrefix(old.history, new.history)
        /\ Last(new.history).version = old.version + 1
        /\ Last(new.history).timestamp = new.updatedAt

C4_Witness ==
  /\ Accepted("update")
  /\ {"createdBy", "createdAt", "version", "history"} \subseteq DOMAIN resp.body
  /\ resp.body.createdBy # resp.before.createdBy
  /\ resp.body.version # resp.before.version + 1

\* C5 (as stated): the version numbers of a design's history entries, in list
\* order, are strictly increasing and contiguous starting at 1.
C5_HistoryContiguous ==
  \A id \in DOMAIN store :
    \A i \in 1..Len(store[id].history) : store[id].history[i].version = i

\* C5 (amended): the version numbers of a design's history entries start at
\* 1, never decrease, go up by at most 1 from one entry to the next (an entry
\* written by togglePublicStatus repeats the current version), and end at the
\* design's version.
C5_HistoryNonDecreasing ==
  \A id \in DOMAIN store :
    LET h == store[id].history
    IN  /\ Len(h) >= 1
        /\ h[1].version = 1
        /\ \A i \in 2..Len(h) :
             h[i].version \in {h[i-1].version, h[i-1].version + 1}
        /\ Last(h).version = store[id].version

C5_Witness ==
  \E id \in DOMAIN store :
    /\ accepted[id].toggles >= 1
    /\ accepted[id].updates >= 1
    /\ \E i \in 2..Len(store[id].history) :
         store[id].history[i].version = store[id].history[i-1].version

\* C6: history is append-only: across every step the history of a design
\* that stays in the store keeps its former entries, unchanged and in order,
\* as a prefix.
C6_HistoryAppendOnly ==
  [][\A id \in (DOMAIN store) \cap (DOMAIN store') :
       IsPrefix(store[id].history, store'[id].history)]_vars

C6_Witness ==
  /\ resp.op \in {"update", "toggle"}
  /\ resp.status = 200
  /\ Len(resp.before.history) >= 2
  /\ Len(store[resp.id].history) = Len(resp.before.history) + 1

\* C7: two accepted togglePublicStatus requests in succession on a design
\* bring isPublic back to its original value, and the version is the same
\* before and after each of the two.
C7_ToggleTwice ==
  [][(/\ resp.op = "toggle" /\ resp.status = 200
      /\ resp'.op = "toggle" /\ resp'.status = 200
      /\ resp'.id = resp.id)
     => /\ store'[resp.id].isPublic = resp.before.isPublic
        /\ store[resp.id].version = resp.before.version
        /\ store'[resp.id].version = store[resp.id].version]_vars

C7_Witness ==
  /\ Accepted("toggle")
  /\ Len(resp.before.history) >= 2
  /\ Last(resp.before.history).changes \in ToggleChanges
  /\ Last(store[resp.id].history).changes \in ToggleChanges
  /\ Len(store[resp.id].history) = Len(resp.before.history) + 1

\* C8: an accepted togglePublicStatus flips isPublic, appends exactly one
\* history entry whose version is the design's current, un-incremented
\* version, and leaves every other field but updatedAt as it was.
C8_ToggleFrame ==
  Accepted("toggle") =>
    LET old == resp.before
        new == store[resp.id]
    IN  /\ new.isPublic = ~old.isPublic
        /\ Len(new.history) = Len(old.history) + 1
        /\ IsPrefix(old.history, new.history)
        /\ Last(new.history).version = old.version
        /\ \A f \in (DOMAIN old) \ {"isPublic", "history", "updatedAt"} :
             new[f] = old[f]

C8_Witness ==
  /\ Accepted("toggle")
  /\ resp.before.version > 1
  /\ store[resp.id].version = resp.before.version
  /\ Last(store[resp.id].history).version = resp.before.version

\* C9: an accepted cloneDesign of design d persists a design with version 1,
\* one history entry, isPublic false, and content equal to d in every field
\* other than identity, owner, version and history (the name and the
\* timestamps, which the clone sets anew, are not compared).
C9_CloneCopiesContent ==
  Accepted("clone") =>
    LET src == resp.before
        new == store[resp.newId]
    IN  /\ new.version = 1
        /\ Len(new.history) = 1
        /\ new.isPublic = FALSE
        /\ \A f \in (DOMAIN src) \ {"createdBy", "version", "history", "isPublic",
                                    "name", "createdAt", "updatedAt"} :
             new[f] = src[f]

\* C10: the design persisted by an accepted cloneDesign has a fresh identity,
\* is owned by the cloning user, and its single history entry names the
\* source design it was cloned from.
C10_CloneProvenance ==
  Accepted("clone") =>
    LET new == store[resp.newId]
    IN  /\ resp.newId # resp.id
        /\ resp.newId \in DOMAIN store
        /\ new.createdBy = resp.user
        /\ Len(new.history) = 1
        /\ new.history[1].changes = ClonedFrom(resp.id)


(***************************************************************************)
(* Properties of access control and of the design graph.                   *)
(***************************************************************************)
\* the request addressed a stored private design of another user
PrivateOfAnother ==
  /\ resp.before # Absent
  /\ resp.before.createdBy # resp.user
  /\ ~resp.before.isPublic

\* C11: cloneDesign of a private design by a user who is not its owner fails
\* with access denied (403, as get does; neither 404 nor 500) and persists no
\* new design; a clone is persisted only for the owner or a public source.
C11_CloneAccessDenied ==
  /\ (resp.op = "clone" /\ IsMongoId(resp.id) /\ PrivateOfAnother)
       => (resp.status = 403 /\ resp.newId = BadId)
  /\ Accepted("clone")
       => (resp.before.createdBy = resp.user \/ resp.before.isPublic)

\* C12: getDesignById with a well-formed id answers 404 when no design has
\* that id, 403 when the design is private and the caller is not its owner,
\* and 200 with the design otherwise.
C12_GetStatus ==
  (resp.op = "get" /\ IsMongoId(resp.id)) =>
    resp.status = IF resp.before = Absent THEN 404
                  ELSE IF PrivateOfAnother THEN 403
                  ELSE 200

C12_Witness ==
  /\ resp.op = "get"
  /\ resp.status = 200
  /\ resp.before # Absent
  /\ resp.before.createdBy # resp.user
  /\ resp.before.isPublic
  /\ \E id \in DOMAIN store : ~store[id].isPublic

\* boundaries, in tenths of the body length, tile [0,1]: the first section
\* starts at 0, the last ends at 1, each end is the next start
TilesBody(sections) ==
  /\ Len(sections) >= 1
  /\ sections[1].boundaries.start = 0
  /\ sections[Len(sections)].boundaries.end = 10
  /\ \A i \in 1..Len(sections) :
       /\ sections[i].boundaries.start >= 0
       /\ sections[i].boundaries.end <= 10
       /\ sections[i].boundaries.start < sections[i].boundaries.end
  /\ \A i \in 1..(Len(sections) - 1) :
       sections[i].boundaries.end = sections[i+1].boundaries.start

\* some component names a section that the design does not have
DanglingSection(design) ==
  \E i \in 1..Len(design.components) :
    \A j \in 1..Len(design.sections) :
      design.sections[j].id # design.components[i].sectionId

\* C13: a design created without caller-supplied sections has exactly the
\* three default sections nosecone, payload bay, main body, in that order,
\* tiling [0,1], and has version 1 and a single history entry of version 1.
C13_DefaultSections ==
  (Accepted("create") /\ ~Has(resp.body, "sections")) =>
    LET d == store[resp.newId]
    IN  /\ Len(d.sections) = 3
        /\ d.sections[1].type = "nosecone"
        /\ d.sections[2].type = "payload_bay"
        /\ d.sections[3].type = "main_body"
        /\ TilesBody(d.sections)
        /\ d.version = 1
        /\ Len(d.history) = 1
        /\ d.history[1].version = 1

C13_Witness ==
  /\ Accepted("create")
  /\ ~Has(resp.body, "sections")
  /\ resp.newId \in DOMAIN store
  /\ Len(store[resp.newId].sections) = 3

\* the design an update request asks for: the stored one with the fields of
\* the body put in
Draft(design, body) ==
  [f \in DOMAIN design |-> IF Has(body, f) THEN body[f] ELSE design[f]]

\* C14: an updateDesign by the owner whose result would have sections with a
\* gap ([0,0.3] and [0.4,1.0]) or a component whose sectionId matches no
\* section is rejected as a validation error (400) and leaves the stored
\* design unchanged.
C14_InvalidDraftRejected ==
  (/\ resp.op = "update"
   /\ resp.before # Absent
   /\ resp.before.createdBy = resp.user
   /\ \/ ~TilesBody(Draft(resp.before, resp.body).sections)
      \/ DanglingSection(Draft(resp.before, resp.body)))
  => /\ resp.status = 400
     /\ store[resp.id] = resp.before

\* C15: every stored design has a non-empty section list whose boundaries
\* lie in [0,1] and tile the body without gap or overlap.
C15_StoredSectionsTile ==
  \A id \in DOMAIN store : TilesBody(store[id].sections)

(***************************************************************************)
(* Properties of template export.                                          *)
(***************************************************************************)
ExportOps == {"template", "save"}

\* the request passed validation and the caller may read the stored design
ExportReadable ==
  /\ resp.op \in ExportOps
  /\ IsMongoId(resp.id)
  /\ FormatValid(resp.body)
  /\ resp.before # Absent
  /\ ~PrivateOfAnother

\* C16: an export request whose format is none of the supported ones is
\* answered 400 before the design is vectorized and before any encoder runs:
\* nothing is drawn, no encoder is entered, no bytes are sent.
C16_UnknownFormatRejectedFirst ==
  (/\ resp.op \in ExportOps
   /\ Has(resp.body, "format")
   /\ resp.body.format \notin SupportedFormats)
  => /\ resp.status = 400
     /\ ~resp.vectorized
     /\ resp.encoder = "none"
     /\ resp.bytes = << >>

C16_Witness ==
  /\ resp.op = "template"
  /\ Has(resp.body, "format")
  /\ resp.body.format = "dxf"
  /\ resp.before # Absent
  /\ resp.before.createdBy = resp.user
  /\ resp.status = 400

\* C17: an export request, in any format, on a design that has no components
\* fails and returns no template bytes.
C17_EmptyDesignRejected ==
  (ExportReadable /\ Len(resp.before.components) = 0)
  => /\ resp.status # 200
     /\ resp.bytes = << >>
     /\ ~resp.vectorized

\* C18: an accepted generateTemplate dispatches on the requested format, svg
\* when omitted: svg sends the vector document itself as image/svg+xml; pdf
\* sends it wrapped between a page header and footer as application/pdf;
\* silhouette and cricut each send their own magic header followed by the
\* whole unmodified document, as application/octet-stream.
C18_EncodingByFormat ==
  Accepted("template") =>
    LET format == IF Has(resp.body, "format") THEN resp.body.format ELSE "svg"
        payload == GenerateSvgTemplate(resp.before)
    IN  /\ format \in SupportedFormats
        /\ format = "svg" =>
             /\ resp.bytes = <<payload>>
             /\ resp.contentType = "image/svg+xml"
        /\ format = "pdf" =>
             /\ resp.bytes = <<PdfHeader, payload, PdfFooter>>
             /\ resp.contentType = "application/pdf"
        /\ format = "silhouette" =>
             /\ resp.bytes = <<SilhouetteHeader, payload>>
             /\ resp.contentType = "application/octet-stream"
        /\ format = "cricut" =>
             /\ resp.bytes = <<CricutHeader, payload>>
             /\ resp.contentType = "application/octet-stream"
        /\ SilhouetteHeader # CricutHeader

C18_Witness ==
  /\ Accepted("template")
  /\ Has(resp.body, "format")
  /\ resp.body.format = "cricut"
  /\ Len(resp.before.components) >= 1
  /\ resp.bytes[1] = CricutHeader

\* the request reached generateAndSaveTemplate in the given environment
SavedIn(env) == resp.op = "save" /\ resp.env = env

\* C19: when the upload to blob storage fails, saveTemplate still succeeds
\* and returns the handle of the local temporary file, which exists.
C19_UploadFailureNotFatal ==
  SavedIn("s3Down") =>
    /\ resp.status = 200
    /\ Has(resp.templateUrl, "tmp")
    /\ \E n \in DOMAIN tmpFiles :
         resp.templateUrl = LocalPath(n) /\ tmpFiles[n].exists

\* C20: when blob storage is configured and the upload succeeds, saveTemplate
\* succeeds and returns the location of the uploaded object.
C20_UploadReturnsUrl ==
  SavedIn("s3Up") =>
    /\ resp.status = 200
    /\ resp.uploaded
    /\ Has(resp.templateUrl, "s3")

\* C21: when generateAndSaveTemplate ends, on whatever path (no upload,
\* upload failed, upload succeeded), the temporary file it wrote either was
\* returned to the caller as the local handle or no longer exists.
C21_TempFileReleased ==
  (resp.op = "save" /\ resp.env \in {"noS3", "s3Down", "s3Up"}) =>
    LET n == Len(tmpFiles)
    IN  tmpFiles[n].exists =>
          (resp.status = 200 /\ resp.templateUrl = LocalPath(n))

(***************************************************************************)
(* Properties of listing.                                                  *)
(***************************************************************************)
ListOps == {"listOwn", "listPublic"}

\* the numeral the caller sent for a field, as a number where it is one
BelowOne(str) == str \in IntegerTexts /\ ParseInt(str) < 1
Above(str, max) == str \in IntegerTexts /\ ParseInt(str) > max

\* C22: a list request (own designs or public designs) with page < 1, limit
\* outside [1,100] or a sort direction other than asc/desc is answered 400
\* without the store being queried; no default or clamped value is used.
C22_BadPaginationRejected ==
  (/\ resp.op \in ListOps
   /\ \/ Has(resp.body, "page") /\ BelowOne(resp.body.page)
      \/ Has(resp.body, "limit")
           /\ (BelowOne(resp.body.limit) \/ Above(resp.body.limit, MaxLimit))
      \/ Has(resp.body, "sortOrder") /\ resp.body.sortOrder \notin {"asc", "desc"})
  => /\ resp.status = 400
     /\ ~resp.queried
     /\ resp.designs = << >>

C22_Witness ==
  /\ resp.op = "listPublic"
  /\ Has(resp.body, "limit")
  /\ resp.body.limit = "101"
  /\ resp.status = 400
  /\ \E id \in DOMAIN store : store[id].isPublic

(***************************************************************************)
(* Properties of overlapping requests.                                     *)
(***************************************************************************)
\* the answer comes from the write of a request that had been in flight
FromWrite(r) == Has(r, "read")

\* between the read and the write of the answered update, exactly one other
\* update that had read the same version wrote
OneUpdateBetween ==
  /\ resp.op = "update"
  /\ FromWrite(resp)
  /\ resp.before # Absent
  /\ Len(resp.before.history) = Len(resp.read.history) + 1
  /\ IsPrefix(resp.read.history, resp.before.history)
  /\ Last(resp.before.history).version = resp.read.version + 1

\* C23: when two updateDesign calls of the owner both read the design before
\* either writes, the second write is accepted as well (200, no conflict is
\* reported), the version ends 1 above the version both read although two
\* updates were accepted, and the last two history entries carry the same
\* version.
C23_LostUpdate ==
  OneUpdateBetween =>
    LET d == store[resp.id]
        n == Len(d.history)
    IN  /\ resp.status = 200
        /\ d.version = resp.read.version + 1
        /\ d.version = resp.before.version
        /\ n = Len(resp.read.history) + 2
        /\ d.history[n].version = d.history[n-1].version
        /\ accepted[resp.id].updates >= 2

C23_Witness ==
  /\ OneUpdateBetween
  /\ resp.status = 200
  /\ accepted[resp.id].updates = 2
  /\ store[resp.id].version = 2
  /\ Len(store[resp.id].history) = 3

\* ids that were given out and are no longer stored
Deleted == {id \in DesignIds : id < nextId /\ id \notin DOMAIN store}

\* C24: a deleted design never exists in the store again, and every answer
\* given after the delete to a get, update, toggle, clone or delete that reads
\* the id, and to the write of an update or toggle that had read the design
\* before the delete, is 404.
C24_DeleteIrreversible ==
  [][\A id \in Deleted :
       /\ id \notin DOMAIN store'
       /\ (/\ resp' # resp
           /\ resp'.id = id
           /\ ~(resp'.op = "delete" /\ FromWrite(resp')))
          => resp'.status = 404]_vars

C24_Witness ==
  /\ resp.op \in {"update", "toggle"}
  /\ FromWrite(resp)
  /\ resp.id \in Deleted
  /\ resp.status = 404

(***************************************************************************)
(* Properties of the stored document under updateDesign.                   *)
(***************************************************************************)
\* C26: an accepted updateDesign leaves every top-level field that its body
\* does not mention as it was; only mentioned fields, updatedAt, version and
\* history change.
C26_PatchMerges ==
  Accepted("update") =>
    \A f \in DOMAIN resp.before :
      (f \notin {"updatedAt", "version", "history"} /\ ~Has(resp.body, f))
        => store[resp.id][f] = resp.before[f]

C26_Witness ==
  /\ Accepted("update")
  /\ Has(resp.body, "sections")
  /\ ~Has(resp.body, "name")
  /\ resp.before.name = "Rocket A"
  /\ Len(resp.before.components) = 1
  /\ store[resp.id].sections # resp.before.sections
  /\ store[resp.id].components = resp.before.components

\* the classification by margin; one caliber is 1000 thousandths
Classify(margin) ==
  IF margin >= 1000 THEN "stable"
  ELSE IF margin >= 0 THEN "marginal"
  ELSE "unstable"

\* C25: the stability status stored for a flight phase is the one its margin
\* gives: stable from 1.0 caliber up, marginal from 0 to below 1.0, unstable
\* below 0; no stored design carries another status.
C25_StatusFollowsMargin ==
  \A id \in DOMAIN store :
    store[id].stabilityAnalysis # Absent =>
      \A i \in DOMAIN store[id].stabilityAnalysis.flightPhases :
        LET phase == store[id].stabilityAnalysis.flightPhases[i]
        IN  phase.stabilityStatus = Classify(phase.stabilityMargin)

(***************************************************************************)
(* Properties of disclosure.                                               *)
(***************************************************************************)
\* C27: getDesignById, cloneDesign, generateTemplate and saveTemplate answer
\* with a design, a copy of it or a template of it only to its owner or while
\* it is public, and the public listing returns public designs only.
C27_PrivateNotDisclosed ==
  /\ (resp.op \in {"get", "clone", "template", "save"} /\ resp.status \in {200, 201})
       => (resp.before.createdBy = resp.user \/ resp.before.isPublic)
  /\ (resp.op \in {"template", "save"} /\ PrivateOfAnother)
       => (resp.bytes = << >> /\ resp.templateUrl = Absent)
  /\ resp.op = "listPublic"
       => \A i \in DOMAIN resp.designs : store[resp.designs[i]].isPublic

C27_Witness ==
  /\ resp.op = "listPublic"
  /\ Len(resp.designs) >= 1
  /\ store[resp.designs[1]].createdBy # resp.user
  /\ \E id \in DOMAIN store :
       ~store[id].isPublic /\ store[id].createdBy # resp.user

\* C28: downloadTemplate answers with a file's content only when the
\* requested path is that of a temporary template file written by the export.
C28_DownloadOnlyTemplates ==
  (resp.op = "download" /\ resp.status = 200) =>
    /\ Has(resp.body.filepath, "tmp")
    /\ resp.body.filepath.tmp \in DOMAIN tmpFiles

====
